---- MODULE Spec2Model ----
(***************************************************************************)
(* A model of paysage's two matrix backends:                               *)
(*   python backend  paysage/backends/python_backend/matrix.py  (numpy)    *)
(*   torch backend   paysage/backends/pytorch_backend/matrix.py (torch)    *)
(*                                                                         *)
(* The backends hold no state of their own; the state is the caller's      *)
(* tensors (heap), the call being executed (op, backend, args), the        *)
(* position inside it (pc, loc) and what it produced (result, outcome).    *)
(* old is the heap as it was when the call was entered.                    *)
(*                                                                         *)
(* Tensors are records [kind, shape, data] with data in row-major order.   *)
(* Numbers are integers: float32 arithmetic is modelled by exact integer   *)
(* arithmetic, square roots and quotients by their floor.                  *)
(***************************************************************************)
EXTENDS Integers, Sequences, FiniteSets, TLC

VARIABLES op, backend, pc, heap, old, args, loc, result, outcome

vars == <<op, backend, pc, heap, old, args, loc, result, outcome>>

(***************************************************************************)
(* Bounds of the model.                                                    *)
(***************************************************************************)
\* mix_inplace: tensors of at most MaxNumel elements, entries 0..MaxVal,
\* weights 0..MaxW
MaxNumel == 3
MaxVal == 1
MaxW == 2
\* the unimplemented functions: tensors of at most StubNumel elements,
\* entries and scalar arguments 0..StubVal
StubNumel == 2
StubVal == 1
\* the other operations: matrices of at most MatDim rows and MatDim columns,
\* entries 0..MatVal
MatDim == 2
MatVal == 3
\* fast_energy_distance: minibatch of at most EnMini rows, samples of at most
\* EnSamples rows, at most EnPairs pairs of one row of each, EnCols columns,
\* entries 0..EnVal, downsample 1..EnDown
EnMini == 3
EnSamples == 4
EnPairs == 8
EnCols == 1
EnVal == 1
EnDown == 4
\* calls of the function tables: at most MaxPos positional arguments
MaxPos == 4

(***************************************************************************)
(* Tensors.                                                                *)
(***************************************************************************)
RECURSIVE Prod(_)
Prod(s) == IF s = <<>> THEN 1 ELSE Head(s) * Prod(Tail(s))

RECURSIVE SumSeq(_)
SumSeq(s) == IF s = <<>> THEN 0 ELSE Head(s) + SumSeq(Tail(s))

Tensor(sh, d) == [kind |-> "tensor", shape |-> sh, data |-> d]

\* a Python float, as the torch reductions over a whole tensor return it
Scalar(v) == [kind |-> "scalar", shape |-> <<>>, data |-> <<v>>]

\* a call that returns nothing (None) or that raised
NoValue == [kind |-> "none", shape |-> <<>>, data |-> <<>>]

NoLoc == [i |-> 0]

TensorsOf(sh, V) == {Tensor(sh, d) : d \in [1..Prod(sh) -> V]}

Shapes2D(maxr, maxc) == {<<r, c>> : r \in 1..maxr, c \in 1..maxc}

\* element (i, j) of a 2-D tensor, indices from 0 as in the source
At(t, i, j) == t.data[i * t.shape[2] + j + 1]

\* t.mul(c): a new tensor, every element times c
Mul(t, c) == Tensor(t.shape, [k \in 1..Len(t.data) |-> t.data[k] * c])

\* t + u, elementwise
Add(t, u) == Tensor(t.shape, [k \in 1..Len(t.data) |-> t.data[k] + u.data[k]])

(***************************************************************************)
(* mix_inplace                                                             *)
(***************************************************************************)
\* ne.evaluate('w*x + (1-w)*y', out=x): every element is computed from the
\* operands' elements at the same position and then stored in x
py_mix_inplace(w, x, y, h) ==
    [h EXCEPT ![x] =
        Tensor(@.shape,
               [k \in 1..Len(@.data) |-> w * h[x].data[k] + (1 - w) * h[y].data[k]])]

\* x.mul_(w)
torch_mix_inplace_mul(w, x, y, h) ==
    [h EXCEPT ![x] = Mul(h[x], w)]

torch_mix_inplace_add_wrong(w, x, y, h) ==
    [h EXCEPT ![x] = Add(h[x], Mul(h[y], w))]

\* x.add_(y.mul(1-w)): y is read after the first step has been stored
torch_mix_inplace_add(w, x, y, h) ==
    [h EXCEPT ![x] = Add(h[x], Mul(h[y], 1 - w))]

MixShapes == {s \in Shapes2D(MaxNumel, MaxNumel) : Prod(s) <= MaxNumel}

\* the caller holds two tensors of one shape and passes x = storage 1 and
\* y = storage 1 (the same tensor twice) or storage 2
InitMix ==
    /\ \E s \in MixShapes : heap \in [1..2 -> TensorsOf(s, 0..MaxVal)]
    /\ old = heap
    /\ op = "mix_inplace"
    /\ backend = "none"
    /\ pc = "ready"
    /\ \E w \in 0..MaxW, y \in 1..2 : args = [w |-> w, x |-> 1, y |-> y]
    /\ loc = NoLoc
    /\ result = NoValue
    /\ outcome = "none"

PyMixInplace ==
    /\ op = "mix_inplace" /\ pc = "ready"
    /\ backend' = "python"
    /\ heap' = py_mix_inplace(args.w, args.x, args.y, heap)
    /\ pc' = "done"
    /\ outcome' = "ok"
    /\ UNCHANGED <<op, old, args, loc, result>>

TorchMixInplaceMul ==
    /\ op = "mix_inplace" /\ pc = "ready"
    /\ backend' = "torch"
    /\ heap' = torch_mix_inplace_mul(args.w, args.x, args.y, heap)
    /\ pc' = "mul_done"
    /\ UNCHANGED <<op, old, args, loc, result, outcome>>

TorchMixInplaceAdd ==
    /\ op = "mix_inplace" /\ pc = "mul_done"
    /\ heap' = torch_mix_inplace_add(args.w, args.x, args.y, heap)
    /\ pc' = "done"
    /\ outcome' = "ok"
    /\ UNCHANGED <<op, backend, old, args, loc, result>>

NextMix == PyMixInplace \/ TorchMixInplaceMul \/ TorchMixInplaceAdd

SpecMix == InitMix /\ [][NextMix]_vars

\* C1: after mix_inplace(w, x, y) with x and y in distinct storage, in either
\* backend, every element of x is w*x_old + (1-w)*y_old, and w and y are as
\* they were.
C1_MixStoresWeightedAverage ==
    (op = "mix_inplace" /\ pc = "done" /\ args.x # args.y) =>
        /\ heap[args.x].shape = old[args.x].shape
        /\ \A k \in 1..Len(old[args.x].data) :
               heap[args.x].data[k] =
                   args.w * old[args.x].data[k] + (1 - args.w) * old[args.y].data[k]
        /\ heap[args.y] = old[args.y]

C1_Witness ==
    /\ op = "mix_inplace" /\ pc = "done" /\ backend = "torch"
    /\ args.x # args.y /\ args.w = 2
    /\ heap[args.x] # old[args.x]
    /\ old[args.x] # old[args.y]
    /\ Len(old[args.x].data) = 3

(***************************************************************************)
(* sqrt_div                                                                *)
(***************************************************************************)
\* numpy.finfo(numpy.float32).eps, the smallest increment of the number
\* grid; on the integer grid of the model that is 1
EPSILON == 1

\* floor of the square root
Isqrt(n) == CHOOSE r \in 0..n : r * r <= n /\ (r + 1) * (r + 1) > n

\* x / sqrt(EPSILON + y), elementwise
SqrtQuotient(x, y) ==
    Tensor(x.shape, [k \in 1..Len(x.data) |-> x.data[k] \div Isqrt(EPSILON + y.data[k])])

\* z = EPSILON + y; return ne.evaluate('x/sqrt(z)'): a new array
py_sqrt_div(x, y, h) == [heap |-> h, result |-> SqrtQuotient(h[x], h[y])]

\* return x.div_(torch.sqrt(EPSILON + y)): div_ stores the quotient in x
\* and returns x
torch_sqrt_div(x, y, h) ==
    LET h2 == [h EXCEPT ![x] = SqrtQuotient(h[x], h[y])]
    IN  [heap |-> h2, result |-> h2[x]]

InitSqrtDiv ==
    /\ \E s \in Shapes2D(MatDim, MatDim) : heap \in [1..2 -> TensorsOf(s, 0..MatVal)]
    /\ old = heap
    /\ op = "sqrt_div"
    /\ backend = "none"
    /\ pc = "ready"
    /\ args = [x |-> 1, y |-> 2]
    /\ loc = NoLoc
    /\ result = NoValue
    /\ outcome = "none"

PySqrtDiv ==
    /\ op = "sqrt_div" /\ pc = "ready"
    /\ backend' = "python"
    /\ LET r == py_sqrt_div(args.x, args.y, heap)
       IN  heap' = r.heap /\ result' = r.result
    /\ pc' = "done"
    /\ outcome' = "ok"
    /\ UNCHANGED <<op, old, args, loc>>

TorchSqrtDiv ==
    /\ op = "sqrt_div" /\ pc = "ready"
    /\ backend' = "torch"
    /\ LET r == torch_sqrt_div(args.x, args.y, heap)
       IN  heap' = r.heap /\ result' = r.result
    /\ pc' = "done"
    /\ outcome' = "ok"
    /\ UNCHANGED <<op, old, args, loc>>

NextSqrtDiv == PySqrtDiv \/ TorchSqrtDiv

SpecSqrtDiv == InitSqrtDiv /\ [][NextSqrtDiv]_vars

\* C9: sqrt_div(x, y) returns the elementwise quotient of x by
\* sqrt(EPSILON + y) and leaves x and y holding the values they held before
\* the call, in both backends.
C9_SqrtDivPure ==
    (op = "sqrt_div" /\ pc = "done") =>
        /\ result = SqrtQuotient(old[args.x], old[args.y])
        /\ heap = old

(***************************************************************************)
(* fill_diagonal                                                           *)
(***************************************************************************)
Min(a, b) == IF a < b THEN a ELSE b

\* mat[i, j] = val
SetAt(t, i, j, val) == [t EXCEPT !.data[i * t.shape[2] + j + 1] = val]

\* numpy.fill_diagonal(mat, val) on a 2-D array stores val at the flat
\* positions 0, cols+1, 2*(cols+1), ... below cols*cols that the array has
py_fill_diagonal(mat, val, h) ==
    LET cols == h[mat].shape[2]
        n == Len(h[mat].data)
        hit(k) == k - 1 < cols * cols /\ (k - 1) % (cols + 1) = 0
    IN  [h EXCEPT ![mat] =
            Tensor(@.shape, [k \in 1..n |-> IF hit(k) THEN val ELSE @.data[k]])]

\* len(mat): the number of rows
TensorLen(t) == t.shape[1]

\* whether mat[i, i] is an element of mat
InRange(t, i) == i < t.shape[1] /\ i < t.shape[2]

InitFill ==
    /\ \E s \in Shapes2D(MatDim, MatDim) : heap \in [1..1 -> TensorsOf(s, 0..MatVal)]
    /\ old = heap
    /\ op = "fill_diagonal"
    /\ backend = "none"
    /\ pc = "ready"
    /\ \E v \in 0..MatVal : args = [mat |-> 1, val |-> v]
    /\ loc = NoLoc
    /\ result = NoValue
    /\ outcome = "none"

PyFillDiagonal ==
    /\ op = "fill_diagonal" /\ pc = "ready"
    /\ backend' = "python"
    /\ heap' = py_fill_diagonal(args.mat, args.val, heap)
    /\ pc' = "done"
    /\ outcome' = "ok"
    /\ UNCHANGED <<op, old, args, loc, result>>

\* for i in range(len(mat)):
TorchFillDiagonalEnter ==
    /\ op = "fill_diagonal" /\ pc = "ready"
    /\ backend' = "torch"
    /\ loc' = [i |-> 0]
    /\ pc' = "loop"
    /\ UNCHANGED <<op, heap, old, args, result, outcome>>

\*     mat[i,i] = val
TorchFillDiagonalStore ==
    /\ op = "fill_diagonal" /\ pc = "loop"
    /\ loc.i < TensorLen(heap[args.mat])
    /\ InRange(heap[args.mat], loc.i)
    /\ heap' = [heap EXCEPT ![args.mat] = SetAt(@, loc.i, loc.i, args.val)]
    /\ loc' = [i |-> loc.i + 1]
    /\ UNCHANGED <<op, backend, pc, old, args, result, outcome>>

\* the store at a column the matrix does not have raises
TorchFillDiagonalRaise ==
    /\ op = "fill_diagonal" /\ pc = "loop"
    /\ loc.i < TensorLen(heap[args.mat])
    /\ ~InRange(heap[args.mat], loc.i)
    /\ pc' = "done"
    /\ outcome' = "IndexError"
    /\ UNCHANGED <<op, backend, heap, old, args, loc, result>>

TorchFillDiagonalReturn ==
    /\ op = "fill_diagonal" /\ pc = "loop"
    /\ loc.i >= TensorLen(heap[args.mat])
    /\ pc' = "done"
    /\ outcome' = "ok"
    /\ UNCHANGED <<op, backend, heap, old, args, loc, result>>

NextFill ==
    \/ PyFillDiagonal
    \/ TorchFillDiagonalEnter
    \/ TorchFillDiagonalStore
    \/ TorchFillDiagonalRaise
    \/ TorchFillDiagonalReturn

SpecFill == InitFill /\ [][NextFill]_vars

\* C7: fill_diagonal(mat, val) on an r x c matrix, square or not, in both
\* backends, completes without an out-of-range access, and then
\* mat[i,i] = val for every i < min(r, c) and every mat[i,j] with i # j is
\* unchanged.
C7_FillDiagonal ==
    (op = "fill_diagonal" /\ pc = "done") =>
        LET m == heap[args.mat]
            r == m.shape[1]
            c == m.shape[2]
        IN  /\ outcome = "ok"
            /\ \A i \in 0..(Min(r, c) - 1) : At(m, i, i) = args.val
            /\ \A i \in 0..(r - 1), j \in 0..(c - 1) :
                   i # j => At(m, i, j) = At(old[args.mat], i, j)

(***************************************************************************)
(* Reductions along an axis.  A lane is the sequence of the elements that  *)
(* one reduction step combines.                                            *)
(***************************************************************************)
\* axis=None, and axis=k
None == <<>>
Axis(k) == <<k>>

NDim(t) == Len(t.shape)

\* the lanes of t along axis, in the order of the result's elements
Lanes(t, axis) ==
    IF NDim(t) = 1
    THEN <<t.data>>
    ELSE LET r == t.shape[1]
             c == t.shape[2]
         IN  IF axis = 0
             THEN [j \in 1..c |-> [i \in 1..r |-> At(t, i - 1, j - 1)]]
             ELSE [i \in 1..r |-> [j \in 1..c |-> At(t, i - 1, j - 1)]]

\* the shape of a reduction along axis that keeps the reduced dimension
KeptShape(t, axis) ==
    IF NDim(t) = 1 THEN <<1>>
    ELSE IF axis = 0 THEN <<1, t.shape[2]>> ELSE <<t.shape[1], 1>>

\* a negative axis counts from the last one
NormAxis(t, axis) == IF axis < 0 THEN axis + NDim(t) ELSE axis


Range(s) == {s[k] : k \in 1..Len(s)}

MaxSeq(s) == CHOOSE v \in Range(s) : \A u \in Range(s) : u <= v
MinSeq(s) == CHOOSE v \in Range(s) : \A u \in Range(s) : v <= u
SumSq(s) == SumSeq([k \in 1..Len(s) |-> s[k] * s[k]])
MeanSeq(s) == SumSeq(s) \div Len(s)

\* not-a-number, a value outside the range of the numbers of the model
NaN == 0 - 1

\* numpy.var: the mean of the squared deviations
VarSeq(s) == (Len(s) * SumSq(s) - SumSeq(s) * SumSeq(s)) \div (Len(s) * Len(s))

\* torch.var: the unbiased estimate, 0/0 on a single element
UnbiasedVarSeq(s) ==
    IF Len(s) = 1 THEN NaN
    ELSE (Len(s) * SumSq(s) - SumSeq(s) * SumSeq(s)) \div (Len(s) * (Len(s) - 1))

StdSeq(s) == Isqrt(VarSeq(s))
UnbiasedStdSeq(s) == IF Len(s) = 1 THEN NaN ELSE Isqrt(UnbiasedVarSeq(s))

\* truth values are 1 and 0
AnySeq(s) == IF \E v \in Range(s) : v # 0 THEN 1 ELSE 0
AllSeq(s) == IF \A v \in Range(s) : v # 0 THEN 1 ELSE 0

\* what the reduction called f makes of one lane
Combine(f, s) ==
    CASE f = "max" -> MaxSeq(s)
      [] f = "min" -> MinSeq(s)
      [] f = "mean" -> MeanSeq(s)
      [] f = "var" -> VarSeq(s)
      [] f = "std" -> StdSeq(s)
      [] f = "unbiased var" -> UnbiasedVarSeq(s)
      [] f = "unbiased std" -> UnbiasedStdSeq(s)
      [] f = "sum" -> SumSeq(s)
      [] f = "prod" -> Prod(s)
      [] f = "any" -> AnySeq(s)
      [] f = "all" -> AllSeq(s)

ReduceAxis(f, t, axis) ==
    LET L == Lanes(t, NormAxis(t, axis))
    IN  Tensor(KeptShape(t, NormAxis(t, axis)), [k \in 1..Len(L) |-> Combine(f, L[k])])

\* numpy.<reduction>(x, axis=axis, keepdims=True)
NumpyReduce(f, x, axis) ==
    IF axis = None
    THEN Tensor([k \in 1..NDim(x) |-> 1], <<Combine(f, x.data)>>)
    ELSE ReduceAxis(f, x, axis[1])

\* torch.<reduction>(x, dim=axis) keeps the reduced dimension with size 1
\* (matrix.py:215-217 indexes the results of two reductions with two
\* indices); torch.<reduction>(x) returns a number
TorchReduce(f, x, axis) ==
    IF axis # None
    THEN ReduceAxis(f, x, axis[1])
    ELSE Scalar(Combine(f, x.data))

\* x == True: elementwise comparison with 1
EqTrue(x) == Tensor(x.shape, [k \in 1..Len(x.data) |-> IF x.data[k] = 1 THEN 1 ELSE 0])

py_tmax(x, axis) == NumpyReduce("max", x, axis)
py_tmin(x, axis) == NumpyReduce("min", x, axis)
py_mean(x, axis) == NumpyReduce("mean", x, axis)
py_var(x, axis) == NumpyReduce("var", x, axis)
py_std(x, axis) == NumpyReduce("std", x, axis)
py_tsum(x, axis) == NumpyReduce("sum", x, axis)
py_tprod(x, axis) == NumpyReduce("prod", x, axis)
py_tany(x, axis) == NumpyReduce("any", x, axis)
py_tall(x, axis) == NumpyReduce("all", x, axis)

torch_tmax(x, axis) == TorchReduce("max", x, axis)
torch_tmin(x, axis) == TorchReduce("min", x, axis)
torch_mean(x, axis) == TorchReduce("mean", x, axis)
torch_var(x, axis) == TorchReduce("unbiased var", x, axis)
torch_std(x, axis) == TorchReduce("unbiased std", x, axis)
torch_tsum(x, axis) == TorchReduce("sum", x, axis)
torch_tprod(x, axis) == TorchReduce("prod", x, axis)
torch_tany(x, axis) == torch_tmax(EqTrue(x), axis)
torch_tall(x, axis) == torch_tmin(EqTrue(x), axis)

Backends == {"python", "torch"}

ReduceShapes == Shapes2D(MatDim, MatDim) \cup {<<n>> : n \in 1..MatDim}

InitReduce ==
    /\ \E s \in ReduceShapes : heap \in [1..1 -> TensorsOf(s, 0..MatVal)]
    /\ old = heap
    /\ op = "none"
    /\ backend = "none"
    /\ pc = "ready"
    /\ \E a \in {None} \cup {Axis(k) : k \in 0..(NDim(heap[1]) - 1)} :
           args = [x |-> 1, axis |-> a]
    /\ loc = NoLoc
    /\ result = NoValue
    /\ outcome = "none"

\* a call of a function that only returns a value
Returns(name, b, value) ==
    /\ pc = "ready"
    /\ op' = name
    /\ backend' = b
    /\ result' = value
    /\ pc' = "done"
    /\ outcome' = "ok"
    /\ UNCHANGED <<heap, old, args, loc>>

Tmax == \E b \in Backends : Returns("tmax", b,
            IF b = "python" THEN py_tmax(heap[args.x], args.axis)
                            ELSE torch_tmax(heap[args.x], args.axis))
Tmin == \E b \in Backends : Returns("tmin", b,
            IF b = "python" THEN py_tmin(heap[args.x], args.axis)
                            ELSE torch_tmin(heap[args.x], args.axis))
Mean == \E b \in Backends : Returns("mean", b,
            IF b = "python" THEN py_mean(heap[args.x], args.axis)
                            ELSE torch_mean(heap[args.x], args.axis))
Var == \E b \in Backends : Returns("var", b,
            IF b = "python" THEN py_var(heap[args.x], args.axis)
                            ELSE torch_var(heap[args.x], args.axis))
Std == \E b \in Backends : Returns("std", b,
            IF b = "python" THEN py_std(heap[args.x], args.axis)
                            ELSE torch_std(heap[args.x], args.axis))
Tsum == \E b \in Backends : Returns("tsum", b,
            IF b = "python" THEN py_tsum(heap[args.x], args.axis)
                            ELSE torch_tsum(heap[args.x], args.axis))
Tprod == \E b \in Backends : Returns("tprod", b,
            IF b = "python" THEN py_tprod(heap[args.x], args.axis)
                            ELSE torch_tprod(heap[args.x], args.axis))
Tany == \E b \in Backends : Returns("tany", b,
            IF b = "python" THEN py_tany(heap[args.x], args.axis)
                            ELSE torch_tany(heap[args.x], args.axis))
Tall == \E b \in Backends : Returns("tall", b,
            IF b = "python" THEN py_tall(heap[args.x], args.axis)
                            ELSE torch_tall(heap[args.x], args.axis))

NextReduce ==
    Tmax \/ Tmin \/ Mean \/ Var \/ Std \/ Tsum \/ Tprod \/ Tany \/ Tall

SpecReduce == InitReduce /\ [][NextReduce]_vars

\* the python backend's result of the reduction called name
PyReduction(name, x, axis) ==
    CASE name = "tmax" -> py_tmax(x, axis)
      [] name = "tmin" -> py_tmin(x, axis)
      [] name = "mean" -> py_mean(x, axis)
      [] name = "var" -> py_var(x, axis)
      [] name = "std" -> py_std(x, axis)
      [] name = "tsum" -> py_tsum(x, axis)
      [] name = "tprod" -> py_tprod(x, axis)
      [] name = "tany" -> py_tany(x, axis)
      [] name = "tall" -> py_tall(x, axis)

Reductions == {"tmax", "tmin", "mean", "var", "std", "tsum", "tprod", "tany", "tall"}

\* C2: for every input shape and every axis (None or a valid axis) the
\* result of tmax, tmin, mean, var, std, tsum, tprod, tany and tall has in
\* the torch backend the shape it has in the python backend.
C2_ReductionShapesAgree ==
    (op \in Reductions /\ pc = "done") =>
        result.shape = PyReduction(op, old[args.x], args.axis).shape

(***************************************************************************)
(* argmax, argmin                                                          *)
(***************************************************************************)
\* the positions (from 0) of the value v in the lane s
ArgBest(s, v) == {k \in 0..(Len(s) - 1) : s[k + 1] = v}

First(S) == CHOOSE k \in S : \A j \in S : k <= j

\* numpy.arg<best>(x, axis=axis, keepdims=False): the first position of the
\* best value of every lane, the reduced dimension dropped
NumpyArg(f, x, axis) ==
    LET L == Lanes(x, NormAxis(x, axis))
    IN  Tensor(<<Len(L)>>, [k \in 1..Len(L) |-> First(ArgBest(L[k], Combine(f, L[k])))])

\* torch.<best>(x, dim=axis)[1]: a position of the best value of every lane,
\* the reduced dimension kept; which one among equal values is not fixed
TorchArg(f, x, axis) ==
    LET L == Lanes(x, NormAxis(x, axis))
        n == CHOOSE m \in {Len(L[k]) : k \in 1..Len(L)} : TRUE
    IN  {Tensor(KeptShape(x, NormAxis(x, axis)), d) :
            d \in {e \in [1..Len(L) -> 0..(n - 1)] :
                      \A k \in 1..Len(L) : e[k] \in ArgBest(L[k], Combine(f, L[k]))}}

py_argmax(x, axis) == NumpyArg("max", x, axis)
py_argmin(x, axis) == NumpyArg("min", x, axis)

\* a,b = torch.max(x, dim=0); index = torch.max(a, dim=1)[1];
\* return b[0, index[0,0]]: the results the call can return
torch_argmax(x, axis) ==
    IF axis # None
    THEN TorchArg("max", x, axis[1])
    ELSE LET a == ReduceAxis("max", x, 0)
         IN  {Scalar(At(b, 0, At(index, 0, 0))) :
                 b \in TorchArg("max", x, 0), index \in TorchArg("max", a, 1)}

torch_argmin(x, axis) ==
    IF axis # None
    THEN TorchArg("min", x, axis[1])
    ELSE LET a == ReduceAxis("min", x, 0)
         IN  {Scalar(At(b, 0, At(index, 0, 0))) :
                 b \in TorchArg("min", x, 0), index \in TorchArg("min", a, 1)}

\* argmax(x), argmin(x): the axis argument is left to its default, -1 in
\* the python backend and None in the torch backend
InitArg ==
    /\ \E s \in Shapes2D(MatDim, MatDim) : heap \in [1..1 -> TensorsOf(s, 0..MatVal)]
    /\ old = heap
    /\ op = "none"
    /\ backend = "none"
    /\ pc = "ready"
    /\ args = [x |-> 1]
    /\ loc = NoLoc
    /\ result = NoValue
    /\ outcome = "none"

PyArgmax == Returns("argmax", "python", py_argmax(heap[args.x], 0 - 1))

PyArgmin == Returns("argmin", "python", py_argmin(heap[args.x], 0 - 1))

TorchArgmax == \E v \in torch_argmax(heap[args.x], None) : Returns("argmax", "torch", v)

TorchArgmin == \E v \in torch_argmin(heap[args.x], None) : Returns("argmin", "torch", v)

NextArg == PyArgmax \/ PyArgmin \/ TorchArgmax \/ TorchArgmin

SpecArg == InitArg /\ [][NextArg]_vars

\* the position of the best value along the last axis of each row
RowArg(name, x) ==
    LET L == Lanes(x, 1)
        best(l) == IF name = "argmax" THEN MaxSeq(l) ELSE MinSeq(l)
    IN  [k \in 1..Len(L) |-> First(ArgBest(L[k], best(L[k])))]

\* C6: argmax(x) and argmin(x) without an axis argument on a 2-D tensor
\* return in both backends the position of the maximum (minimum) along the
\* last axis of each row, with the same shape.
C6_ArgAgree ==
    (op \in {"argmax", "argmin"} /\ pc = "done") =>
        /\ result.shape = <<old[args.x].shape[1]>>
        /\ result.data = RowArg(op, old[args.x])

(***************************************************************************)
(* The functions the torch backend does not implement.                     *)
(***************************************************************************)
\* what a call leaves behind: the heap, the value returned and how it ended
Outcome(h, value, how) == [heap |-> h, result |-> value, outcome |-> how]

\* raise NotImplementedError
RaiseNotImplemented(h) == Outcome(h, NoValue, "NotImplementedError")

torch_batch_dot(vis, W, hid, axis, h) == RaiseNotImplemented(h)

torch_batch_outer_implemented(vis, hid, h) ==
    Outcome([h EXCEPT ![vis] = Mul(@, 0)], h[hid], "ok")

torch_batch_outer(vis, hid, h) == RaiseNotImplemented(h)
torch_repeat(tensor, n, axis, h) == RaiseNotImplemented(h)
torch_stack(tensors, axis, h) == RaiseNotImplemented(h)
torch_hstack(tensors, h) == RaiseNotImplemented(h)
torch_vstack(tensors, h) == RaiseNotImplemented(h)
torch_trange(start, end, step, h) == RaiseNotImplemented(h)
torch_squared_euclidean_distance(a, b, h) == RaiseNotImplemented(h)
torch_euclidean_distance(a, b, h) == RaiseNotImplemented(h)
torch_fast_energy_distance(minibatch, samples, downsample, h) == RaiseNotImplemented(h)

StubShapes == {s \in Shapes2D(StubNumel, StubNumel) : Prod(s) <= StubNumel}

\* the tensors of the caller: any two, of equal or different shapes
InitStub ==
    /\ heap \in [1..2 -> UNION {TensorsOf(s, 0..StubVal) : s \in StubShapes}]
    /\ old = heap
    /\ op = "none"
    /\ backend = "none"
    /\ pc = "ready"
    /\ args = [none |-> 0]
    /\ loc = NoLoc
    /\ result = NoValue
    /\ outcome = "none"

\* a call of the torch backend with the arguments a that ends as r says
TorchCall(name, a, r) ==
    /\ pc = "ready"
    /\ op' = name
    /\ backend' = "torch"
    /\ args' = a
    /\ heap' = r.heap
    /\ result' = r.result
    /\ outcome' = r.outcome
    /\ pc' = "done"
    /\ UNCHANGED <<old, loc>>

Refs == 1..2
RefLists == {<<r>> : r \in Refs} \cup {<<r, q>> : r \in Refs, q \in Refs}
Ints == 0..StubVal

TorchBatchDot ==
    \E vis \in Refs, W \in Refs, hid \in Refs, axis \in 0..1 :
        TorchCall("batch_dot", [vis |-> vis, W |-> W, hid |-> hid, axis |-> axis],
                  torch_batch_dot(vis, W, hid, axis, heap))

TorchBatchOuter ==
    \E vis \in Refs, hid \in Refs :
        TorchCall("batch_outer", [vis |-> vis, hid |-> hid],
                  torch_batch_outer(vis, hid, heap))

TorchRepeat ==
    \E tensor \in Refs, n \in Ints, axis \in 0..1 :
        TorchCall("repeat", [tensor |-> tensor, n |-> n, axis |-> axis],
                  torch_repeat(tensor, n, axis, heap))

TorchStack ==
    \E tensors \in RefLists, axis \in 0..1 :
        TorchCall("stack", [tensors |-> tensors, axis |-> axis],
                  torch_stack(tensors, axis, heap))

TorchHstack ==
    \E tensors \in RefLists :
        TorchCall("hstack", [tensors |-> tensors], torch_hstack(tensors, heap))

TorchVstack ==
    \E tensors \in RefLists :
        TorchCall("vstack", [tensors |-> tensors], torch_vstack(tensors, heap))

TorchTrange ==
    \E start \in Ints, end \in Ints, step \in Ints :
        TorchCall("trange", [start |-> start, end |-> end, step |-> step],
                  torch_trange(start, end, step, heap))

TorchSquaredEuclideanDistance ==
    \E a \in Refs, b \in Refs :
        TorchCall("squared_euclidean_distance", [a |-> a, b |-> b],
                  torch_squared_euclidean_distance(a, b, heap))

TorchEuclideanDistance ==
    \E a \in Refs, b \in Refs :
        TorchCall("euclidean_distance", [a |-> a, b |-> b],
                  torch_euclidean_distance(a, b, heap))

TorchFastEnergyDistance ==
    \E minibatch \in Refs, samples \in Refs, downsample \in Ints :
        TorchCall("fast_energy_distance",
                  [minibatch |-> minibatch, samples |-> samples, downsample |-> downsample],
                  torch_fast_energy_distance(minibatch, samples, downsample, heap))

NextStub ==
    \/ TorchBatchDot
    \/ TorchBatchOuter
    \/ TorchRepeat
    \/ TorchStack
    \/ TorchHstack
    \/ TorchVstack
    \/ TorchTrange
    \/ TorchSquaredEuclideanDistance
    \/ TorchEuclideanDistance
    \/ TorchFastEnergyDistance

SpecStub == InitStub /\ [][NextStub]_vars

TorchStubs ==
    {"batch_dot", "batch_outer", "repeat", "stack", "hstack", "vstack", "trange",
     "squared_euclidean_distance", "euclidean_distance", "fast_energy_distance"}

\* C4: in the torch backend batch_dot, batch_outer, repeat, stack, hstack,
\* vstack, trange, squared_euclidean_distance, euclidean_distance and
\* fast_energy_distance end, whatever their arguments, in
\* NotImplementedError, return no value and leave every argument tensor
\* unchanged.
C4_StubsRaise ==
    (backend = "torch" /\ op \in TorchStubs /\ pc = "done") =>
        /\ outcome = "NotImplementedError"
        /\ result = NoValue
        /\ heap = old

C4_Witness ==
    /\ backend = "torch" /\ op = "batch_outer" /\ pc = "done"
    /\ outcome = "NotImplementedError"
    /\ args.vis # args.hid
    /\ heap[args.vis].shape # heap[args.hid].shape
    /\ \E k \in 1..Len(heap[args.vis].data) : heap[args.vis].data[k] # 0

(***************************************************************************)
(* The function tables of the two backends: every def of the module, with  *)
(* its parameters in order and the number of them that have a default.     *)
(***************************************************************************)
PyDefs ==
    <<
      <<"to_numpy_array", <<"tensor">>, 0>>,
      <<"float_scalar", <<"scalar">>, 0>>,
      <<"float_tensor", <<"tensor">>, 0>>,
      <<"shape", <<"tensor">>, 0>>,
      <<"ndim", <<"tensor">>, 0>>,
      <<"transpose", <<"tensor">>, 0>>,
      <<"zeros", <<"shape">>, 0>>,
      <<"zeros_like", <<"tensor">>, 0>>,
      <<"ones", <<"shape">>, 0>>,
      <<"ones_like", <<"tensor">>, 0>>,
      <<"diag", <<"vec">>, 0>>,
      <<"diagonal_matrix", <<"mat">>, 0>>,
      <<"identity", <<"n">>, 0>>,
      <<"fill_diagonal", <<"mat", "val">>, 0>>,
      <<"sign", <<"tensor">>, 0>>,
      <<"clip", <<"tensor", "a_min", "a_max">>, 2>>,
      <<"clip_inplace", <<"tensor", "a_min", "a_max">>, 2>>,
      <<"tround", <<"tensor">>, 0>>,
      <<"flatten", <<"tensor">>, 0>>,
      <<"reshape", <<"tensor", "newshape">>, 0>>,
      <<"dtype", <<"tensor">>, 0>>,
      <<"mix_inplace", <<"w", "x", "y">>, 0>>,
      <<"square_mix_inplace", <<"w", "x", "y">>, 0>>,
      <<"sqrt_div", <<"x", "y">>, 0>>,
      <<"normalize", <<"x">>, 0>>,
      <<"norm", <<"x">>, 0>>,
      <<"tmax", <<"x", "axis">>, 1>>,
      <<"tmin", <<"x", "axis">>, 1>>,
      <<"mean", <<"x", "axis">>, 1>>,
      <<"var", <<"x", "axis">>, 1>>,
      <<"std", <<"x", "axis">>, 1>>,
      <<"tsum", <<"x", "axis">>, 1>>,
      <<"tprod", <<"x", "axis">>, 1>>,
      <<"tany", <<"x", "axis">>, 1>>,
      <<"tall", <<"x", "axis">>, 1>>,
      <<"equal", <<"x", "y">>, 0>>,
      <<"allclose", <<"x", "y">>, 0>>,
      <<"not_equal", <<"x", "y">>, 0>>,
      <<"greater", <<"x", "y">>, 0>>,
      <<"greater_equal", <<"x", "y">>, 0>>,
      <<"lesser", <<"x", "y">>, 0>>,
      <<"lesser_equal", <<"x", "y">>, 0>>,
      <<"maximum", <<"x", "y">>, 0>>,
      <<"minimum", <<"x", "y">>, 0>>,
      <<"argmax", <<"x", "axis">>, 1>>,
      <<"argmin", <<"x", "axis">>, 1>>,
      <<"dot", <<"a", "b">>, 0>>,
      <<"outer", <<"x", "y">>, 0>>,
      <<"affine", <<"a", "b", "W">>, 0>>,
      <<"quadratic", <<"a", "b", "W">>, 0>>,
      <<"inv", <<"mat">>, 0>>,
      <<"batch_dot", <<"vis", "W", "hid", "axis">>, 1>>,
      <<"batch_outer", <<"vis", "hid">>, 0>>,
      <<"repeat", <<"tensor", "n", "axis">>, 0>>,
      <<"stack", <<"tensors", "axis">>, 0>>,
      <<"hstack", <<"tensors">>, 0>>,
      <<"vstack", <<"tensors">>, 0>>,
      <<"trange", <<"start", "end", "step">>, 1>>,
      <<"squared_euclidean_distance", <<"a", "b">>, 0>>,
      <<"euclidean_distance", <<"a", "b">>, 0>>,
      <<"fast_energy_distance", <<"minibatch", "samples", "downsample">>, 1>>
    >>

TorchDefsWithoutTrange ==
    <<
      <<"to_numpy_array", <<"tensor">>, 0>>,
      <<"float_scalar", <<"scalar">>, 0>>,
      <<"float_tensor", <<"tensor">>, 0>>,
      <<"shape", <<"tensor">>, 0>>,
      <<"ndim", <<"tensor">>, 0>>,
      <<"transpose", <<"tensor">>, 0>>,
      <<"zeros", <<"shape">>, 0>>,
      <<"zeros_like", <<"tensor">>, 0>>,
      <<"ones", <<"shape">>, 0>>,
      <<"ones_like", <<"tensor">>, 0>>,
      <<"diag", <<"mat">>, 0>>,
      <<"diagonal_matrix", <<"vec">>, 0>>,
      <<"identity", <<"n">>, 0>>,
      <<"fill_diagonal", <<"mat", "val">>, 0>>,
      <<"sign", <<"tensor">>, 0>>,
      <<"clip", <<"tensor", "a_min", "a_max">>, 2>>,
      <<"clip_inplace", <<"tensor", "a_min", "a_max">>, 2>>,
      <<"tround", <<"tensor">>, 0>>,
      <<"flatten", <<"tensor">>, 0>>,
      <<"reshape", <<"tensor", "newshape">>, 0>>,
      <<"dtype", <<"tensor">>, 0>>,
      <<"mix_inplace", <<"w", "x", "y">>, 0>>,
      <<"square_mix_inplace", <<"w", "x", "y">>, 0>>,
      <<"sqrt_div", <<"x", "y">>, 0>>,
      <<"normalize", <<"x">>, 0>>,
      <<"norm", <<"x">>, 0>>,
      <<"tmax", <<"x", "axis">>, 1>>,
      <<"tmin", <<"x", "axis">>, 1>>,
      <<"mean", <<"x", "axis">>, 1>>,
      <<"var", <<"x", "axis">>, 1>>,
      <<"std", <<"x", "axis">>, 1>>,
      <<"tsum", <<"x", "axis">>, 1>>,
      <<"tprod", <<"x", "axis">>, 1>>,
      <<"tany", <<"x", "axis">>, 1>>,
      <<"tall", <<"x", "axis">>, 1>>,
      <<"equal", <<"x", "y">>, 0>>,
      <<"allclose", <<"x", "y">>, 0>>,
      <<"not_equal", <<"x", "y">>, 0>>,
      <<"greater", <<"x", "y">>, 0>>,
      <<"greater_equal", <<"x", "y">>, 0>>,
      <<"lesser", <<"x", "y">>, 0>>,
      <<"lesser_equal", <<"x", "y">>, 0>>,
      <<"maximum", <<"x", "y">>, 0>>,
      <<"minimum", <<"x", "y">>, 0>>,
      <<"argmax", <<"x", "axis">>, 1>>,
      <<"argmin", <<"x", "axis">>, 1>>,
      <<"dot", <<"a", "b">>, 0>>,
      <<"outer", <<"x", "y">>, 0>>,
      <<"broadcast", <<"vec", "mat">>, 0>>,
      <<"affine", <<"a", "b", "W">>, 0>>,
      <<"quadratic", <<"a", "b", "W">>, 0>>,
      <<"inv", <<"mat">>, 0>>,
      <<"batch_dot", <<"vis", "W", "hid", "axis">>, 1>>,
      <<"batch_outer", <<"vis", "hid">>, 0>>,
      <<"repeat", <<"tensor", "n", "axis">>, 0>>,
      <<"stack", <<"tensors", "axis">>, 0>>,
      <<"hstack", <<"tensors">>, 0>>,
      <<"vstack", <<"tensors">>, 0>>,
      <<"squared_euclidean_distance", <<"a", "b">>, 0>>,
      <<"euclidean_distance", <<"a", "b">>, 0>>,
      <<"fast_energy_distance", <<"minibatch", "samples", "downsample">>, 1>>
    >>

TorchDefs ==
    <<
      <<"to_numpy_array", <<"tensor">>, 0>>,
      <<"float_scalar", <<"scalar">>, 0>>,
      <<"float_tensor", <<"tensor">>, 0>>,
      <<"shape", <<"tensor">>, 0>>,
      <<"ndim", <<"tensor">>, 0>>,
      <<"transpose", <<"tensor">>, 0>>,
      <<"zeros", <<"shape">>, 0>>,
      <<"zeros_like", <<"tensor">>, 0>>,
      <<"ones", <<"shape">>, 0>>,
      <<"ones_like", <<"tensor">>, 0>>,
      <<"diag", <<"mat">>, 0>>,
      <<"diagonal_matrix", <<"vec">>, 0>>,
      <<"identity", <<"n">>, 0>>,
      <<"fill_diagonal", <<"mat", "val">>, 0>>,
      <<"sign", <<"tensor">>, 0>>,
      <<"clip", <<"tensor", "a_min", "a_max">>, 2>>,
      <<"clip_inplace", <<"tensor", "a_min", "a_max">>, 2>>,
      <<"tround", <<"tensor">>, 0>>,
      <<"flatten", <<"tensor">>, 0>>,
      <<"reshape", <<"tensor", "newshape">>, 0>>,
      <<"dtype", <<"tensor">>, 0>>,
      <<"mix_inplace", <<"w", "x", "y">>, 0>>,
      <<"square_mix_inplace", <<"w", "x", "y">>, 0>>,
      <<"sqrt_div", <<"x", "y">>, 0>>,
      <<"normalize", <<"x">>, 0>>,
      <<"norm", <<"x">>, 0>>,
      <<"tmax", <<"x", "axis">>, 1>>,
      <<"tmin", <<"x", "axis">>, 1>>,
      <<"mean", <<"x", "axis">>, 1>>,
      <<"var", <<"x", "axis">>, 1>>,
      <<"std", <<"x", "axis">>, 1>>,
      <<"tsum", <<"x", "axis">>, 1>>,
      <<"tprod", <<"x", "axis">>, 1>>,
      <<"tany", <<"x", "axis">>, 1>>,
      <<"tall", <<"x", "axis">>, 1>>,
      <<"equal", <<"x", "y">>, 0>>,
      <<"allclose", <<"x", "y">>, 0>>,
      <<"not_equal", <<"x", "y">>, 0>>,
      <<"greater", <<"x", "y">>, 0>>,
      <<"greater_equal", <<"x", "y">>, 0>>,
      <<"lesser", <<"x", "y">>, 0>>,
      <<"lesser_equal", <<"x", "y">>, 0>>,
      <<"maximum", <<"x", "y">>, 0>>,
      <<"minimum", <<"x", "y">>, 0>>,
      <<"argmax", <<"x", "axis">>, 1>>,
      <<"argmin", <<"x", "axis">>, 1>>,
      <<"dot", <<"a", "b">>, 0>>,
      <<"outer", <<"x", "y">>, 0>>,
      <<"broadcast", <<"vec", "mat">>, 0>>,
      <<"affine", <<"a", "b", "W">>, 0>>,
      <<"quadratic", <<"a", "b", "W">>, 0>>,
      <<"inv", <<"mat">>, 0>>,
      <<"batch_dot", <<"vis", "W", "hid", "axis">>, 1>>,
      <<"batch_outer", <<"vis", "hid">>, 0>>,
      <<"repeat", <<"tensor", "n", "axis">>, 0>>,
      <<"stack", <<"tensors", "axis">>, 0>>,
      <<"hstack", <<"tensors">>, 0>>,
      <<"vstack", <<"tensors">>, 0>>,
      <<"trange", <<"start", "end", "step">>, 1>>,
      <<"squared_euclidean_distance", <<"a", "b">>, 0>>,
      <<"euclidean_distance", <<"a", "b">>, 0>>,
      <<"fast_energy_distance", <<"minibatch", "samples", "downsample">>, 1>>
    >>

DefNames(defs) == {defs[k][1] : k \in 1..Len(defs)}

\* the def of name: a later def of a name replaces an earlier one
Def(defs, name) ==
    LET k == CHOOSE i \in 1..Len(defs) :
                 /\ defs[i][1] = name
                 /\ \A j \in (i + 1)..Len(defs) : defs[j][1] # name
    IN  [params |-> defs[k][2], defaults |-> defs[k][3]]

\* Python's binding of a call with npos positional arguments and the keyword
\* arguments kw to the parameters of a def
Binds(d, npos, kw) ==
    LET n == Len(d.params)
    IN  /\ npos <= n
        /\ kw \subseteq {d.params[k] : k \in (npos + 1)..n}
        /\ \A k \in 1..(n - d.defaults) : k <= npos \/ d.params[k] \in kw

\* how a call backend.name(...) gets on: the module has no such attribute,
\* the arguments do not bind, or the function is entered
Dispatch(defs, name, npos, kw) ==
    IF name \notin DefNames(defs) THEN "AttributeError"
    ELSE IF ~Binds(Def(defs, name), npos, kw) THEN "TypeError"
    ELSE "entered"

WellFormed(defs, name, npos, kw) == Dispatch(defs, name, npos, kw) = "entered"

\* the calls the upper layer may make: any name, at most MaxPos positional
\* arguments and at most one keyword argument

AllNames == DefNames(PyDefs) \cup DefNames(TorchDefs) \cup {"undefined"}

AllParams ==
    UNION {{PyDefs[k][2][i] : i \in 1..Len(PyDefs[k][2])} : k \in 1..Len(PyDefs)}
    \cup UNION {{TorchDefs[k][2][i] : i \in 1..Len(TorchDefs[k][2])} : k \in 1..Len(TorchDefs)}

Keywords == {{}} \cup {{q} : q \in AllParams}

InitApi ==
    /\ heap = <<>>
    /\ old = heap
    /\ op \in AllNames
    /\ backend = "none"
    /\ pc = "ready"
    /\ \E npos \in 0..MaxPos, kw \in Keywords : args = [npos |-> npos, kw |-> kw]
    /\ loc = NoLoc
    /\ result = NoValue
    /\ outcome = "none"

\* the upper layer makes the call op(...) on the backend it has selected
Call(b, defs) ==
    /\ pc = "ready"
    /\ backend' = b
    /\ outcome' = Dispatch(defs, op, args.npos, args.kw)
    /\ pc' = "called"
    /\ UNCHANGED <<op, heap, old, args, loc, result>>

PyCall == Call("python", PyDefs)

TorchApiCall == Call("torch", TorchDefs)

NextApi == PyCall \/ TorchApiCall

SpecApi == InitApi /\ [][NextApi]_vars

\* every name the python backend defines the torch backend defines too,
\* with as many parameters
SameNamesAndArity ==
    \A name \in DefNames(PyDefs) :
        /\ name \in DefNames(TorchDefs)
        /\ Len(Def(PyDefs, name).params) = Len(Def(TorchDefs, name).params)

\* ... and with as many defaults
SameDefaults ==
    \A name \in DefNames(PyDefs) \cap DefNames(TorchDefs) :
        Def(PyDefs, name).defaults = Def(TorchDefs, name).defaults

Row(t, i) == [k \in 1..t.shape[2] |-> At(t, i, k - 1)]

py_squared_euclidean_distance(a, b) ==
    SumSeq([i \in 1..Len(a) |-> (a[i] - b[i]) * (a[i] - b[i])])

py_euclidean_distance(a, b) == Isqrt(py_squared_euclidean_distance(a, b))

\* the index pairs of: for i in range(k-1): for j in range(i+1, k)
Pairs(k) == {p \in (0..(k - 1)) \X (0..(k - 1)) : p[1] < p[2]}

\* the sum of the values of the function f
RECURSIVE SumOver(_)
SumOver(f) ==
    IF DOMAIN f = {} THEN 0
    ELSE LET e == CHOOSE x \in DOMAIN f : TRUE
         IN  f[e] + SumOver([x \in DOMAIN f \ {e} |-> f[x]])

\* an access: the array read, the position read and the array's length
Access(arr, pos, len) == [arr |-> arr, pos |-> pos, len |-> len]

\* the value 2.0 * d3 - d2 - d1 with d1 = 2.0 * s1 / (n*n - n),
\* d2 = 2.0 * s2 / (m*m - m), d3 = s3 / (n*m), as the fraction num/den
EnergyValue(s1, s2, s3, n, m) ==
    LET q1 == n * n - n
        q2 == m * m - m
        q3 == n * m
    IN  [kind |-> "fraction", shape |-> <<>>,
         data |-> <<2 * s3 * q1 * q2 - 2 * s2 * q1 * q3 - 2 * s1 * q2 * q3,
                    q1 * q2 * q3>>]

EnergyTensors(maxrows) ==
    UNION {TensorsOf(<<r, EnCols>>, 0..EnVal) : r \in 1..maxrows}

InitEnergy ==
    /\ \E mb \in EnergyTensors(EnMini), sa \in EnergyTensors(EnSamples) :
           /\ mb.shape[1] * sa.shape[1] <= EnPairs
           /\ heap = <<mb, sa>>
    /\ old = heap
    /\ op = "fast_energy_distance"
    /\ backend = "python"
    /\ pc = "ready"
    /\ \E d \in 1..EnDown : args = [minibatch |-> 1, samples |-> 2, downsample |-> d]
    /\ loc = NoLoc
    /\ result = NoValue
    /\ outcome = "none"

\* n = min(len(minibatch), downsample); m = min(len(samples), downsample);
\* index_1 = numpy.random.choice(numpy.arange(len(minibatch)), size=n);
\* index_2 = numpy.random.choice(numpy.arange(len(samples)), size=m)
EnergySample ==
    /\ op = "fast_energy_distance" /\ pc = "ready"
    /\ LET n == Min(TensorLen(heap[args.minibatch]), args.downsample)
           m == Min(TensorLen(heap[args.samples]), args.downsample)
       IN  \E i1 \in [1..n -> 0..(TensorLen(heap[args.minibatch]) - 1)],
              i2 \in [1..m -> 0..(TensorLen(heap[args.samples]) - 1)] :
               loc' = [n |-> n, m |-> m, index_1 |-> i1, index_2 |-> i2,
                       i |-> 0, j |-> 0, d1 |-> 0, d2 |-> 0, d3 |-> 0, reads |-> {}]
    /\ pc' = "d1"
    /\ UNCHANGED <<op, backend, heap, old, args, result, outcome>>

\* the first pair of loops and d1 = 2.0 * d1 / (n*n - n)
EnergyD1 ==
    /\ op = "fast_energy_distance" /\ pc = "d1"
    /\ LET mb == heap[args.minibatch]
           n == loc.n
           dist(p) == py_euclidean_distance(Row(mb, loc.index_1[p[1] + 1]),
                                            Row(mb, loc.index_1[p[2] + 1]))
           acc == UNION {{Access("index_1", p[1], n), Access("index_1", p[2], n),
                          Access("minibatch", loc.index_1[p[1] + 1], TensorLen(mb)),
                          Access("minibatch", loc.index_1[p[2] + 1], TensorLen(mb))} :
                         p \in Pairs(n)}
       IN  /\ loc' = [loc EXCEPT !.d1 = SumOver([p \in Pairs(n) |-> dist(p)]),
                                 !.reads = @ \cup acc,
                                 !.i = 0, !.j = 1]
           /\ IF n * n - n = 0
              THEN pc' = "done" /\ outcome' = "ZeroDivisionError"
              ELSE pc' = "d2" /\ UNCHANGED outcome
    /\ UNCHANGED <<op, backend, heap, old, args, result>>

\* what reading position pos of the array a of length len can give: the
\* element, or without bounds checking whatever lies behind the array
ReadIndex(a, pos, len, limit) == IF pos < len THEN {a[pos + 1]} ELSE 0..limit

ReadRow(t, i) ==
    IF i < TensorLen(t) THEN {Row(t, i)} ELSE [1..t.shape[2] -> 0..EnVal]

\* one pass of the body of the second pair of loops:
\* d2 += euclidean_distance(samples[index_1[i]], samples[index_2[j]])
EnergyD2Step ==
    /\ op = "fast_energy_distance" /\ pc = "d2"
    /\ loc.i < loc.m - 1
    /\ LET sa == heap[args.samples]
           len == TensorLen(sa)
       IN  \E k1 \in ReadIndex(loc.index_1, loc.i, loc.n, len),
              k2 \in ReadIndex(loc.index_2, loc.j, loc.m, len) :
             \E r1 \in ReadRow(sa, k1), r2 \in ReadRow(sa, k2) :
               loc' = [loc EXCEPT
                         !.d2 = @ + py_euclidean_distance(r1, r2),
                         !.reads = @ \cup {Access("index_1", loc.i, loc.n),
                                           Access("index_2", loc.j, loc.m),
                                           Access("samples", k1, len),
                                           Access("samples", k2, len)},
                         !.i = IF loc.j + 1 < loc.m THEN loc.i ELSE loc.i + 1,
                         !.j = IF loc.j + 1 < loc.m THEN loc.j + 1 ELSE loc.i + 2]
    /\ UNCHANGED <<op, backend, pc, heap, old, args, result, outcome>>

\* d2 = 2.0 * d2 / (m*m - m)
EnergyD2Exit ==
    /\ op = "fast_energy_distance" /\ pc = "d2"
    /\ loc.i >= loc.m - 1
    /\ IF loc.m * loc.m - loc.m = 0
       THEN pc' = "done" /\ outcome' = "ZeroDivisionError"
       ELSE pc' = "d3" /\ UNCHANGED outcome
    /\ UNCHANGED <<op, backend, heap, old, args, loc, result>>

\* for i in index_1: for j in index_2:
\*     d3 += euclidean_distance(minibatch[i], samples[j])
\* d3 = d3 / (n*m); return 2.0 * d3 - d2 - d1
EnergyD3 ==
    /\ op = "fast_energy_distance" /\ pc = "d3"
    /\ LET mb == heap[args.minibatch]
           sa == heap[args.samples]
           P == (1..loc.n) \X (1..loc.m)
           dist(p) == py_euclidean_distance(Row(mb, loc.index_1[p[1]]),
                                            Row(sa, loc.index_2[p[2]]))
           acc == UNION {{Access("index_1", p[1] - 1, loc.n),
                          Access("index_2", p[2] - 1, loc.m),
                          Access("minibatch", loc.index_1[p[1]], TensorLen(mb)),
                          Access("samples", loc.index_2[p[2]], TensorLen(sa))} : p \in P}
           s3 == SumOver([p \in P |-> dist(p)])
       IN  /\ loc' = [loc EXCEPT !.d3 = s3, !.reads = @ \cup acc]
           /\ result' = EnergyValue(loc.d1, loc.d2, s3, loc.n, loc.m)
    /\ pc' = "done"
    /\ outcome' = "ok"
    /\ UNCHANGED <<op, backend, heap, old, args>>

NextEnergy == EnergySample \/ EnergyD1 \/ EnergyD2Step \/ EnergyD2Exit \/ EnergyD3

SpecEnergy == InitEnergy /\ [][NextEnergy]_vars

\* the statistic of the subsample index_1, index_2: the sums of the
\* distances over the unordered pairs of sampled minibatch rows, over the
\* unordered pairs of sampled rows of samples, and over all pairs of one of
\* each
EnergyStatistic(mb, sa, i1, i2) ==
    LET n == Len(i1)
        m == Len(i2)
        f1(p) == py_euclidean_distance(Row(mb, i1[p[1] + 1]), Row(mb, i1[p[2] + 1]))
        f2(p) == py_euclidean_distance(Row(sa, i2[p[1] + 1]), Row(sa, i2[p[2] + 1]))
        f3(p) == py_euclidean_distance(Row(mb, i1[p[1]]), Row(sa, i2[p[2]]))
    IN  EnergyValue(SumOver([p \in Pairs(n) |-> f1(p)]),
                    SumOver([p \in Pairs(m) |-> f2(p)]),
                    SumOver([p \in (1..n) \X (1..m) |-> f3(p)]), n, m)

\* C3: fast_energy_distance returns 2*d3 - d2 - d1 of the subsample, with
\* n = min(len(minibatch), downsample) and m = min(len(samples), downsample)
\* sampled row indices, d1 the mean distance over the unordered pairs of the
\* sampled minibatch rows, d2 the mean distance over the unordered pairs of
\* the sampled rows of samples (both rows at indices of index_2), d3 the mean
\* distance over all n*m pairs of one of each.
C3_EnergyStatistic ==
    (op = "fast_energy_distance" /\ backend = "python" /\ pc = "done" /\ outcome = "ok") =>
        /\ Len(loc.index_1) = Min(TensorLen(old[args.minibatch]), args.downsample)
        /\ Len(loc.index_2) = Min(TensorLen(old[args.samples]), args.downsample)
        /\ result = EnergyStatistic(old[args.minibatch], old[args.samples],
                                    loc.index_1, loc.index_2)

\* C8: every position fast_energy_distance reads of index_1, index_2,
\* minibatch and samples is less than the length of the array read, whatever
\* the row counts, downsample >= 1 and the indices drawn.
C8_AccessesInRange ==
    (op = "fast_energy_distance" /\ backend = "python" /\ pc \in {"d1", "d2", "d3", "done"}) =>
        \A a \in loc.reads : a.pos < a.len

====
